---- MODULE Spec2Model ----
(***************************************************************************)
(* Turn navigation store of gh-maps-react (TurnNavigationStore.reduce and  *)
(* its location sources), as a state machine.                              *)
(*                                                                         *)
(* Geometry: a local metric frame.  lng is the position along the road in  *)
(* metres, lat the lateral offset from the road in metres.  All roads of   *)
(* the model lie on lat = 0.                                               *)
(***************************************************************************)
EXTENDS Integers, Sequences, FiniteSets, Bags, TLC

VARIABLES
    state,          \* Store._state: the TurnNavigationStoreState
    watchId,        \* TurnNavigationStore.watchId
    watches,        \* the device watches that are still delivering positions
    interval,       \* TurnNavigationStore.interval
    timers,         \* the replay timers that are still ticking: id -> replay
                    \* (its index, its points and the fixes it has delivered)
    pendingFake,    \* initFake calls waiting for their routing response
    requests,       \* reroute requests (api.route) not yet resolved
    fixes,          \* the LocationUpdate actions dispatched so far
    lastFix,        \* the coordinate of the last LocationUpdate dispatched
    lastAction,     \* the handler that ran last
    error,          \* the error the last handler threw, or "none"
    spoken,         \* what the last handler gave to the speech synthesizer
    announced,      \* the near announcement of state.instruction was spoken
    skArgs, skResult, \* arguments and result of a direct skipWaypoint call
    anArgs, anResult  \* arguments and result of the announcement step alone

sourceVars == <<watchId, watches, interval, timers, pendingFake>>
fixVars == <<fixes, lastFix>>
traceVars == <<fixVars, lastAction, error, spoken, announced>>
skVars == <<skArgs, skResult>>
anVars == <<anArgs, anResult>>
callVars == <<skVars, anVars>>
vars == <<state, sourceVars, requests, traceVars, callVars>>

----------------------------------------------------------------------------
(* Bounds of the model *)

\* routing requests that may be outstanding at once
MaxInFlight == 2
\* fake-GPS initialisations (awaited route or replay timer) alive at once
MaxFakeInits == 1
\* location fixes dispatched in one run
MaxFixes == 3

----------------------------------------------------------------------------
(* JavaScript values *)

\* the value of a missing property ({} as TNInstructionState)
undefined == 0 - 1000
null == [null |-> TRUE]

\* a < b in JavaScript: false when a is undefined (NaN)
JsLt(a, b) == a # undefined /\ a < b
\* a > b in JavaScript: false when a is undefined (NaN)
JsGt(a, b) == a # undefined /\ a > b

Abs(n) == IF n < 0 THEN 0 - n ELSE n
\* Math.round(n / d) for n >= 0, d > 0
MathRound(n, d) == (2 * n + d) \div (2 * d)

RECURSIVE SqrtIn(_, _, _)
SqrtIn(n, lo, hi) ==
    IF lo >= hi THEN lo
    ELSE LET mid == (lo + hi + 1) \div 2
         IN IF mid * mid <= n THEN SqrtIn(n, mid, hi) ELSE SqrtIn(n, lo, mid - 1)
\* Math.sqrt, rounded down to a whole metre (46340 * 46340 < 2^31)
Sqrt(n) == SqrtIn(n, 0, IF n < 46340 THEN n ELSE 46340)

----------------------------------------------------------------------------
(* The world: one road, its turns and its speed zones *)

Coord(lng, lat) == [lat |-> lat, lng |-> lng]

\* positions of the turns on the road, and where the slow zone starts
TurnAt == 600
SlowFrom == 1000
\* projections farther than this from the path give no instruction
MaxSnapDistance == 200

\* GeoMethods.calcDist
calcDist(a, b) ==
    Sqrt((a.lng - b.lng) * (a.lng - b.lng) + (a.lat - b.lat) * (a.lat - b.lat))

\* graphhopper Instruction
Instr(lng, sign, text) ==
    [point |-> lng, sign |-> sign, text |-> text, street_name |-> text]

\* the instructions of one leg a -> b: the turn strictly inside, then the
\* via (sign 5) or finish (sign 4) instruction at b
LegInstructions(a, b, isLast) ==
    (IF (a < TurnAt /\ TurnAt < b) \/ (b < TurnAt /\ TurnAt < a)
        THEN <<Instr(TurnAt, 0 - 2, "Turn left")>> ELSE <<>>)
    \o <<IF isLast THEN Instr(b, 4, "Arrive at destination")
                   ELSE Instr(b, 5, "Waypoint")>>

RECURSIVE LegsFrom(_, _)
LegsFrom(wps, i) ==
    IF i >= Len(wps) THEN <<>>
    ELSE LegInstructions(wps[i], wps[i + 1], i + 1 = Len(wps)) \o LegsFrom(wps, i + 1)

\* graphhopper Path over the waypoints wps (positions on the road)
MakePath(wps) ==
    [snapped_waypoints |-> [i \in 1..Len(wps) |-> <<wps[i], 0>>],
     instructions |-> <<Instr(wps[1], 0, "Continue")>> \o LegsFrom(wps, 1)]

\* RoutingClient.route for points [from, to], first candidate
RoutePath(from, to) == MakePath(<<from.lng, to.lng>>)

----------------------------------------------------------------------------
(* GeoMethods: projection of a coordinate onto a path *)

PathStart(path) == path.snapped_waypoints[1][1]
PathEnd(path) == path.snapped_waypoints[Len(path.snapped_waypoints)][1]
PathDir(path) == IF PathEnd(path) >= PathStart(path) THEN 1 ELSE 0 - 1

PathLength(path) == Abs(PathEnd(path) - PathStart(path))

\* t limited to the stretch 0..len
Clamp(t, len) == IF t < 0 THEN 0 ELSE IF t > len THEN len ELSE t

\* progress of position lng along the path, in metres from its start
Along(path, lng) == Clamp(PathDir(path) * (lng - PathStart(path)), PathLength(path))

\* the point of the path closest to c
Snap(path, c) == Coord(PathStart(path) + PathDir(path) * Along(path, c.lng), 0)

\* first index (1-based) of seq whose progress lies beyond t, else the last
RECURSIVE NextBeyond(_, _, _, _)
NextBeyond(path, positions, t, i) ==
    IF i >= Len(positions) THEN Len(positions)
    ELSE IF Along(path, positions[i]) > t THEN i
    ELSE NextBeyond(path, positions, t, i + 1)

\* where the instructions and the waypoints of a path lie on the road
InstrPos(path) == [i \in 1..Len(path.instructions) |-> path.instructions[i].point]
WpPos(path) == [i \in 1..Len(path.snapped_waypoints) |-> path.snapped_waypoints[i][1]]

\* the result of getCurrentInstruction for progress t, next instruction ii and
\* next waypoint wi (1-based) and distance dist to the path
InstructionAt(path, t, len, ii, wi, dist) ==
    [index |-> IF dist > MaxSnapDistance THEN 0 - 1 ELSE ii - 1,
     distanceToTurn |-> Along(path, path.instructions[ii].point) - t,
     timeToEnd |-> (len - t) * 100,
     distanceToEnd |-> len - t,
     nextWaypointIndex |-> wi - 1,
     distanceToWaypoint |-> Along(path, path.snapped_waypoints[wi][1]) - t,
     distanceToRoute |-> dist]

\* the same for progress t of coordinate c
InstructionFrom(path, c, t) ==
    InstructionAt(path, t, PathLength(path),
                  NextBeyond(path, InstrPos(path), t, 1),
                  NextBeyond(path, WpPos(path), t, 1),
                  calcDist(c, Snap(path, c)))

\* GeoMethods.getCurrentInstruction(path.instructions, coordinate)
getCurrentInstruction(path, c) == InstructionFrom(path, c, Along(path, c.lng))

\* GeoMethods.getCurrentDetails(path, coordinate, [average_speed, max_speed,
\* surface, road_class])
getCurrentDetails(path, c) ==
    IF Snap(path, c).lng < SlowFrom
        THEN [estimatedAvgSpeed |-> 25, maxSpeed |-> 30,
              surface |-> "asphalt", roadClass |-> "primary"]
        ELSE [estimatedAvgSpeed |-> 10, maxSpeed |-> 10,
              surface |-> "gravel", roadClass |-> "track"]

----------------------------------------------------------------------------
(* TurnNavigationStore: helpers *)

\* {} as TNInstructionState
NoInstruction ==
    [index |-> undefined, distanceToTurn |-> undefined, timeToEnd |-> undefined,
     distanceToEnd |-> undefined, nextWaypointIndex |-> undefined,
     distanceToWaypoint |-> undefined, sign |-> undefined, text |-> "",
     distanceToRoute |-> undefined]

\* {} as TNPathDetailsState
NoPathDetails ==
    [estimatedAvgSpeed |-> undefined, maxSpeed |-> undefined,
     surface |-> "", roadClass |-> ""]

\* TurnNavigationStore.getWaypoint
getWaypoint(path, nextWaypointIndex) ==
    Coord(path.snapped_waypoints[nextWaypointIndex + 1][1],
          path.snapped_waypoints[nextWaypointIndex + 1][2])

\* skipWaypoint with the straight-line threshold taken inclusively
skipWaypointInclusive(prevStateDistanceToWaypoint, waypoint, stateCoord, actionCoord) ==
    IF JsLt(prevStateDistanceToWaypoint, 50) THEN TRUE
    ELSE LET straightDistToWaypoint == calcDist(actionCoord, waypoint)
         IN IF straightDistToWaypoint <= 50 THEN TRUE
            ELSE JsLt(prevStateDistanceToWaypoint, 80) /\ straightDistToWaypoint < 80

\* TurnNavigationStore.skipWaypoint
skipWaypoint(prevStateDistanceToWaypoint, waypoint, stateCoord, actionCoord) ==
    IF JsLt(prevStateDistanceToWaypoint, 50) THEN TRUE
    ELSE LET straightDistToWaypoint == calcDist(actionCoord, waypoint)
         IN IF straightDistToWaypoint < 50 THEN TRUE
            ELSE JsLt(prevStateDistanceToWaypoint, 80) /\ straightDistToWaypoint < 80

\* distanceToRouteChange that ignores the distance recorded last
distanceToRouteChangeAbsolute(st, actionDistance) == actionDistance > 50

\* TurnNavigationStore.distanceToRouteChange (this.state is the state being reduced)
distanceToRouteChange(st, actionDistance) ==
    IF st.instruction.distanceToRoute = undefined THEN actionDistance > 50
    ELSE Abs(st.instruction.distanceToRoute - actionDistance) > 50

\* synthesize without its test of the sound setting
synthesizeAlways(st, text) == <<text>>

\* TurnNavigationStore.synthesize
synthesize(st, text) == IF st.settings.soundEnabled THEN <<text>> ELSE <<>>

\* a text for the synthesizer: the translation key of its prefix (with the
\* number filled in) and the instruction text that follows it
Utterance(kind, prefix, metres, text) ==
    [kind |-> kind, prefix |-> prefix, metres |-> metres, text |-> text]

\* what a handler does: the state it returns, the error it throws instead,
\* the routing requests it issues and the texts it gives to the synthesizer
Result(st, err, reqs, texts, branch) ==
    [state |-> st, error |-> err, requests |-> reqs, spoken |-> texts,
     branch |-> branch]
Returns(st) == Result(st, "none", <<>>, <<>>, "return")
Throws(st, err) == Result(st, err, <<>>, <<>>, "throw")

\* the instruction snapshot stored in the state (lines 442-452, 482-492)
InstructionState(path, instr) ==
    [index |-> instr.index,
     distanceToTurn |-> instr.distanceToTurn,
     timeToEnd |-> instr.timeToEnd,
     distanceToEnd |-> instr.distanceToEnd,
     nextWaypointIndex |-> instr.nextWaypointIndex,
     distanceToWaypoint |-> instr.distanceToWaypoint,
     distanceToRoute |-> instr.distanceToRoute,
     sign |-> path.instructions[instr.index + 1].sign,
     text |-> path.instructions[instr.index + 1].street_name]

----------------------------------------------------------------------------
(* TurnNavigationStore.reduce, one definition per action class *)

\* TurnNavigationStop that leaves speed and heading as they are
reduceStopKeepsSpeed(st) ==
    Returns([st EXCEPT !.showUI = FALSE, !.started = FALSE])

\* action instanceof TurnNavigationStop
reduceStop(st) ==
    Returns([st EXCEPT !.showUI = FALSE, !.started = FALSE, !.speed = 0, !.heading = 0])

\* action instanceof TurnNavigationSettingsUpdate; update is a partial settings
\* object
reduceSettingsUpdate(st, update) ==
    Returns([st EXCEPT !.settings =
        [k \in DOMAIN st.settings |->
            IF k \in DOMAIN update THEN update[k] ELSE st.settings[k]]])

\* action instanceof TurnNavigationStart
reduceStart(st) == Returns([st EXCEPT !.started = TRUE])

\* action instanceof SelectMapLayer
reduceSelectMapLayer(st, layer) ==
    IF ~st.started THEN Returns([st EXCEPT !.oldTiles = layer]) ELSE Returns(st)

\* TurnNavigationReroutingFailed that leaves the flag set
reduceReroutingFailedKeepsFlag(st) == Returns(st)

\* TurnNavigationReroutingFailed that also drops the instruction snapshot
reduceReroutingFailedResets(st) ==
    Returns([st EXCEPT !.rerouteInProgress = FALSE, !.instruction = NoInstruction])

\* action instanceof TurnNavigationReroutingFailed
reduceReroutingFailed(st) == Returns([st EXCEPT !.rerouteInProgress = FALSE])

\* action instanceof SetCustomModel
reduceSetCustomModel(st, model, valid) ==
    Returns([st EXCEPT !.customModel = IF valid THEN model ELSE null])

\* action instanceof SetVehicleProfile
reduceSetVehicleProfile(st, name) == Returns([st EXCEPT !.activeProfile = name])

\* SetSelectedPath that accepts the path during guidance as well
reduceSetSelectedPathAnytime(st, path) ==
    Returns([st EXCEPT !.initialPath = path, !.activePath = path,
                       !.instruction = NoInstruction,
                       !.pathDetails = NoPathDetails])

\* action instanceof SetSelectedPath
reduceSetSelectedPath(st, path) ==
    IF st.showUI THEN Throws(st, "Changing path while turn navigation should not happen")
    ELSE Returns([st EXCEPT !.initialPath = path, !.activePath = path,
                            !.instruction = NoInstruction,
                            !.pathDetails = NoPathDetails])

\* lines 318-350 of the LocationUpdate branch: the path and instruction in
\* use and the waypoint-skip decision
\* the skipWaypoint call of lines 323-328 and 339-344 for the path and
\* instruction in use
SkipOf(st, path, instr, c) ==
    skipWaypoint(st.instruction.distanceToWaypoint,
                 getWaypoint(path, instr.nextWaypointIndex), st.coordinate, c)

\* the condition of lines 330-334: switch back to the original path
SwitchBack(st, c) ==
    /\ SkipOf(st, st.activePath, getCurrentInstruction(st.activePath, c), c)
    /\ Len(st.activePath.snapped_waypoints) = 2
    /\ Len(st.initialPath.snapped_waypoints) > 2

\* the outcome that keeps the skip at the last waypoint
SkipOutcomeKeepsSkip(path, instr, skip, hasNext) ==
    [path |-> path,
     instr |-> IF skip /\ hasNext
                  THEN [instr EXCEPT !.nextWaypointIndex = @ + 1] ELSE instr,
     skipWaypoint |-> skip]

\* lines 347-350: the next waypoint becomes the destination, or the skip is
\* dropped at the last waypoint
SkipOutcome(path, instr, skip, hasNext) ==
    [path |-> path,
     instr |-> IF skip /\ hasNext
                  THEN [instr EXCEPT !.nextWaypointIndex = @ + 1] ELSE instr,
     skipWaypoint |-> skip /\ hasNext]

SkipDecisionWith(st, c, path, instr) ==
    SkipOutcome(path, instr, SkipOf(st, path, instr, c),
                instr.nextWaypointIndex + 1 < Len(path.snapped_waypoints))

SkipDecisionOn(st, c, path) ==
    SkipDecisionWith(st, c, path, getCurrentInstruction(path, c))

SkipDecision(st, c) ==
    SkipDecisionOn(st, c, IF SwitchBack(st, c) THEN st.initialPath ELSE st.activePath)

\* RoutingArgs of the reroute request (lines 356-367)
RoutingArgs(st, path, instr, c, hd) ==
    [points |-> <<c, getWaypoint(path, instr.nextWaypointIndex)>>,
     maxAlternativeRoutes |-> 0,
     heading |-> hd,
     zoom |-> FALSE,
     profile |-> st.activeProfile,
     customModel |-> st.customModel]

\* lines 353-396: the reroute branch
RerouteBranch(st, path, instr, c, sp, hd) ==
    LET queriedAPI == ~st.rerouteInProgress
    IN Result([st EXCEPT !.rerouteInProgress = queriedAPI,
                         !.heading = hd, !.speed = sp, !.coordinate = c],
              "none",
              IF queriedAPI THEN <<RoutingArgs(st, path, instr, c, hd)>> ELSE <<>>,
              <<>>, "reroute")

\* the threshold without the factor 5 that scales the rounded speed back
lastAnnounceDistanceUnscaled(estimatedAvgSpeed) == 10 + 2 * MathRound(estimatedAvgSpeed, 5)

\* 10 + 2 * Math.round(estimatedAvgSpeed / 5) * 5 (line 412)
lastAnnounceDistance(estimatedAvgSpeed) == 10 + 2 * MathRound(estimatedAvgSpeed, 5) * 5

firstAnnounceDistance == 1150

\* the near announcement without its edge condition: every fix in the window
NearAnnouncementEveryFix(st, instr, estimatedAvgSpeed) ==
    instr.distanceToTurn <= lastAnnounceDistance(estimatedAvgSpeed)

\* the condition of the near announcement (lines 414-417)
NearAnnouncement(st, instr, estimatedAvgSpeed) ==
    /\ instr.distanceToTurn <= lastAnnounceDistance(estimatedAvgSpeed)
    /\ \/ JsGt(st.instruction.distanceToTurn, lastAnnounceDistance(estimatedAvgSpeed))
       \/ instr.index # st.instruction.index

\* the far announcement without its speed condition
FarAnnouncementAnySpeed(st, instr, estimatedAvgSpeed) ==
    /\ instr.distanceToTurn > lastAnnounceDistance(estimatedAvgSpeed) + 50
    /\ instr.distanceToTurn <= firstAnnounceDistance
    /\ \/ JsGt(st.instruction.distanceToTurn, firstAnnounceDistance)
       \/ instr.index # st.instruction.index

\* the condition of the far announcement (lines 422-427)
FarAnnouncement(st, instr, estimatedAvgSpeed) ==
    /\ estimatedAvgSpeed > 15
    /\ instr.distanceToTurn > lastAnnounceDistance(estimatedAvgSpeed) + 50
    /\ instr.distanceToTurn <= firstAnnounceDistance
    /\ \/ JsGt(st.instruction.distanceToTurn, firstAnnounceDistance)
       \/ instr.index # st.instruction.index

\* tr('in_km_singular') or tr('in_m', [n]) (lines 428-431)
InString(distanceToTurn, text) ==
    IF distanceToTurn > 800 THEN Utterance("far", "in_km_singular", 0, text)
    ELSE Utterance("far", "in_m", MathRound(distanceToTurn, 100) * 100, text)

\* lines 410-434: what the commit branch gives to the synthesizer
Announcements(st, path, instr, estimatedAvgSpeed) ==
    IF st.settings.soundEnabled
        THEN (IF NearAnnouncement(st, instr, estimatedAvgSpeed)
                 THEN synthesize(st, Utterance("near", "", 0,
                                               path.instructions[instr.index + 1].text))
                 ELSE <<>>)
             \o
             (IF FarAnnouncement(st, instr, estimatedAvgSpeed)
                 THEN synthesize(st, InString(instr.distanceToTurn,
                                              path.instructions[instr.index + 1].text))
                 ELSE <<>>)
        ELSE <<>>

\* lines 398-454: the commit branch
CommitBranch(st, path, instr, c, sp, hd) ==
    IF instr.index < 0
        THEN Throws(st, "Instruction should be valid if distanceToRoute is small")
    ELSE Result([st EXCEPT !.showUI = TRUE,
                           !.heading = hd, !.speed = sp, !.coordinate = c,
                           !.instruction = InstructionState(path, instr),
                           !.pathDetails = getCurrentDetails(path, c)],
                "none", <<>>,
                Announcements(st, path, instr,
                              getCurrentDetails(path, c).estimatedAvgSpeed),
                "commit")

\* lines 352-454: reroute or commit, for the skip decision d
LocationUpdateWith(st, d, c, sp, hd) ==
    IF (st.showUI /\ distanceToRouteChange(st, d.instr.distanceToRoute))
       \/ d.skipWaypoint
       THEN RerouteBranch(st, d.path, d.instr, c, sp, hd)
       ELSE CommitBranch(st, d.path, d.instr, c, sp, hd)

\* LocationUpdate without the early return on an empty profile
reduceLocationUpdateAnyProfile(st, c, sp, hd) ==
    IF st.initialPath = null THEN Throws(st, "initialPath must not be null")
    ELSE IF st.activePath = null THEN Throws(st, "activePath must not be null")
    ELSE LocationUpdateWith(st, SkipDecision(st, c), c, sp, hd)

\* action instanceof LocationUpdate
reduceLocationUpdate(st, c, sp, hd) ==
    IF st.initialPath = null THEN Throws(st, "initialPath must not be null")
    ELSE IF st.activePath = null THEN Throws(st, "activePath must not be null")
    ELSE IF st.activeProfile = "" THEN Returns(st)
    ELSE LocationUpdateWith(st, SkipDecision(st, c), c, sp, hd)

\* the not-found branch returning the state as it is
RerouteNotFoundKeepsFlag(st) == Returns(st)

\* the not-found branch also leaving the guidance display
RerouteNotFoundHidesUI(st) ==
    Returns([st EXCEPT !.rerouteInProgress = FALSE, !.showUI = FALSE])

\* lines 462-468: 'instruction after rerouting not found'
RerouteNotFound(st) == Returns([st EXCEPT !.rerouteInProgress = FALSE])

\* lines 470-494: the candidate path becomes the active path
RerouteInstalled(st, path, instr) ==
    Returns([st EXCEPT !.activePath = path,
                       !.rerouteInProgress = FALSE,
                       !.instruction = InstructionState(path, instr),
                       !.pathDetails = getCurrentDetails(path, st.coordinate)])

RerouteWith(st, path, instr) ==
    IF instr.index < 0 THEN RerouteNotFound(st) ELSE RerouteInstalled(st, path, instr)

\* action instanceof TurnNavigationRerouting
reduceRerouting(st, path) ==
    RerouteWith(st, path, getCurrentInstruction(path, st.coordinate))

----------------------------------------------------------------------------
(* Inputs *)

\* a GeolocationPosition's coords; heading undefined is the device's null
Position(lng, lat, hd, sp) ==
    [latitude |-> lat, longitude |-> lng, heading |-> hd, speed |-> sp]

\* the positions the device reports
Positions ==
    {Position(300, 60, 90, 10),
     Position(300, 260, undefined, 3),
     Position(582, 0, 90, 10),
     Position(960, 0, 90, 10),
     Position(1960, 0, 90, 5)}

\* the paths the user can select
SelectablePaths == {MakePath(<<0, 1000, 2000>>), MakePath(<<0, 1000>>)}

Profiles == {"car"}
CustomModels == {[speed |-> <<>>, priority |-> <<>>]}
Layers == {"MapTiler"}
SettingsUpdates ==
    {[soundEnabled |-> TRUE], [soundEnabled |-> FALSE]}

\* points.coordinates of the path between the two demonstration coordinates
FakeCoordinates == <<Coord(0, 0), Coord(960, 0)>>
\* the jitter 0.0001 * Math.random() of <<lat, lon>> of each point, in metres:
\* the sequences of draws the model follows
Jitters == {<< <<0, 0>>, <<0, 0>> >>, << <<5, 0>>, <<0, 5>> >>}

----------------------------------------------------------------------------
(* Location sources *)

\* heading of the replayed fix (calcOrientation, toNorthBased, toDegrees)
FakeHeading(prev, lat, lon) == IF lon >= prev.lng THEN 90 ELSE 270

\* latlon of initFake (lines 547-562) for the jitter drawn for each point
FakeLatlon(jitter) ==
    [idx \in 1..Len(FakeCoordinates) |->
        LET lat == FakeCoordinates[idx].lat + jitter[idx][1]
            lon == FakeCoordinates[idx].lng + jitter[idx][2]
        IN Position(lon, lat,
                    IF idx > 1 THEN FakeHeading(FakeCoordinates[idx - 1], lat, lon) ELSE 0,
                    4)]

\* the replay index that stays on the last point instead of wrapping around
NextReplayIndexNoWrap(currentIndex, length) ==
    IF currentIndex + 1 < length THEN currentIndex + 1 ELSE currentIndex

\* currentIndex++; currentIndex %= latlon.length (lines 575-576)
NextReplayIndex(currentIndex, length) == (currentIndex + 1) % length

\* TurnNavigationStore.locationUpdate: the LocationUpdate it dispatches
locationUpdate(st, pos) ==
    reduceLocationUpdate(st, Coord(pos.longitude, pos.latitude), pos.speed,
                         IF pos.heading = undefined \/ pos.heading = 0
                            THEN 0 ELSE pos.heading)

NearSpoken(texts) == \E i \in 1..Len(texts) : texts[i].kind = "near"
FarSpoken(texts) == \E i \in 1..Len(texts) : texts[i].kind = "far"

\* two snapshots of the same instruction of the same active path
SameInstruction(st1, st2) ==
    /\ st1.activePath = st2.activePath
    /\ st1.instruction.index = st2.instruction.index
    /\ st1.instruction.text = st2.instruction.text

\* Store.receive: the state becomes what reduce returned (unchanged when it
\* threw); the promises of the requests it issued are outstanding
Receive(result, name, via) ==
    /\ BagCardinality(requests) + Len(result.requests) <= MaxInFlight
    /\ state' = result.state
    /\ requests' = IF result.requests = <<>> THEN requests
                   ELSE requests (+) SetToBag({result.requests[1]})
    /\ lastAction' = [name |-> name, via |-> via, branch |-> result.branch]
    /\ error' = result.error
    /\ spoken' = result.spoken
    /\ announced' = IF SameInstruction(state, result.state)
                       THEN announced \/ NearSpoken(result.spoken)
                       ELSE NearSpoken(result.spoken)
    /\ UNCHANGED callVars

\* a LocationUpdate dispatched by a location source
ReceiveFix(result, pos, via) ==
    /\ fixes < MaxFixes
    /\ fixes' = fixes + 1
    /\ lastFix' = Coord(pos.longitude, pos.latitude)
    /\ Receive(result, "LocationUpdate", via)

----------------------------------------------------------------------------
(* Actions *)

\* TurnNavigationStore.stop: the timer in this.interval and the watch in
\* this.watchId are cleared; the fields keep their values
TurnNavigationStop ==
    /\ Receive(reduceStop(state), "TurnNavigationStop", "ui")
    /\ timers' = [id \in DOMAIN timers \ {interval} |-> timers[id]]
    /\ watches' = watches \ {watchId}
    /\ UNCHANGED <<watchId, interval, pendingFake, fixVars>>

TurnNavigationSettingsUpdate ==
    \E update \in SettingsUpdates :
        /\ Receive(reduceSettingsUpdate(state, update),
                   "TurnNavigationSettingsUpdate", "ui")
        /\ UNCHANGED <<sourceVars, fixVars>>

\* initFake up to its await, or initReal (clearWatch of the old watch, then
\* watchPosition)
TurnNavigationStart ==
    /\ Receive(reduceStart(state), "TurnNavigationStart", "ui")
    /\ UNCHANGED fixVars
    /\ IF state.settings.fakeGPS
          THEN /\ pendingFake + Cardinality(DOMAIN timers) < MaxFakeInits
               /\ pendingFake' = pendingFake + 1
               /\ UNCHANGED <<watchId, watches, interval, timers>>
          ELSE /\ watchId' = 1
               /\ watches' = {1}
               /\ UNCHANGED <<interval, timers, pendingFake>>

SelectMapLayer ==
    \E layer \in Layers :
        /\ Receive(reduceSelectMapLayer(state, layer), "SelectMapLayer", "ui")
        /\ UNCHANGED <<sourceVars, fixVars>>

SetCustomModel ==
    \E model \in CustomModels, valid \in BOOLEAN :
        /\ Receive(reduceSetCustomModel(state, model, valid), "SetCustomModel", "ui")
        /\ UNCHANGED <<sourceVars, fixVars>>

SetVehicleProfile ==
    \E name \in Profiles :
        /\ Receive(reduceSetVehicleProfile(state, name), "SetVehicleProfile", "ui")
        /\ UNCHANGED <<sourceVars, fixVars>>

SetSelectedPath ==
    \E path \in SelectablePaths :
        /\ Receive(reduceSetSelectedPath(state, path), "SetSelectedPath", "ui")
        /\ UNCHANGED <<sourceVars, fixVars>>

\* the success callback of watchPosition
WatchPosition ==
    \E pos \in Positions :
        /\ watches # {}
        /\ ReceiveFix(locationUpdate(state, pos), pos, "watch")
        /\ UNCHANGED sourceVars

\* initFake after its await: the replay is computed, its first fix is
\* dispatched and, unless that threw, the timer is started
FakeRouteResolved ==
    /\ pendingFake > 0
    /\ \E jitter \in Jitters :
      \E latlon \in {FakeLatlon(jitter)} :
      \E result \in {locationUpdate(state, latlon[1])} :
      \E id \in {CHOOSE i \in 1..MaxFakeInits : i \notin DOMAIN timers} :
           /\ pendingFake' = pendingFake - 1
           /\ ReceiveFix(result, latlon[1], "initFake")
           /\ IF result.error = "none"
                 THEN /\ timers' = [i \in DOMAIN timers \cup {id} |->
                                      IF i = id THEN [currentIndex |-> 0, latlon |-> latlon,
                                                     delivered |-> 1]
                                      ELSE timers[i]]
                      /\ interval' = id
                 ELSE UNCHANGED <<timers, interval>>
           /\ UNCHANGED <<watchId, watches>>

\* initFake after its await, when the request failed or found no path
FakeRouteFailed ==
    /\ pendingFake > 0
    /\ pendingFake' = pendingFake - 1
    /\ lastAction' = [name |-> "none", via |-> "initFake", branch |-> "throw"]
    /\ error' = "initFake"
    /\ spoken' = <<>>
    /\ UNCHANGED <<state, requests, announced, fixVars, callVars,
                   watchId, watches, interval, timers>>

\* the callback of setInterval
FakeTick ==
    \E id \in DOMAIN timers :
      \E currentIndex \in {NextReplayIndex(timers[id].currentIndex,
                                            Len(timers[id].latlon))} :
      \E pos \in {timers[id].latlon[currentIndex + 1]} :
           /\ timers' = [timers EXCEPT ![id].currentIndex = currentIndex,
                                       ![id].delivered = @ + 1]
           /\ ReceiveFix(locationUpdate(state, pos), pos, "timer")
           /\ UNCHANGED <<watchId, watches, interval, pendingFake>>

\* the resolution of one reroute request: the action its callback dispatches
\* is reduced and the promise is no longer outstanding
Resolve(args, result, name, via) ==
    /\ state' = result.state
    /\ requests' = requests (-) SetToBag({args})
    /\ lastAction' = [name |-> name, via |-> via, branch |-> result.branch]
    /\ error' = result.error
    /\ spoken' = result.spoken
    /\ announced' = (SameInstruction(state, result.state) /\ announced)
    /\ UNCHANGED <<callVars, sourceVars, fixVars>>

\* api.route(args).then with a path: TurnNavigationRerouting is dispatched,
\* then 'reroute' is spoken
RouteResolved ==
    \E args \in BagToSet(requests) :
      \E result \in {reduceRerouting(state, RoutePath(args.points[1], args.points[2]))} :
           Resolve(args,
                   [result EXCEPT !.spoken =
                       synthesize(result.state, Utterance("reroute", "reroute", 0, ""))],
                   "TurnNavigationRerouting", "route.then")

\* api.route(args).then with paths.length = 0
RouteEmpty ==
    \E args \in BagToSet(requests) :
        Resolve(args, reduceReroutingFailed(state),
                "TurnNavigationReroutingFailed", "route.then")

\* api.route(args).catch
RouteFailed ==
    \E args \in BagToSet(requests) :
        Resolve(args, reduceReroutingFailed(state),
                "TurnNavigationReroutingFailed", "route.catch")

----------------------------------------------------------------------------
(* The store with its collaborators *)

\* the arguments of a skipWaypoint call
SkipArgs(prev, waypoint, stateCoord, actionCoord) ==
    [prevStateDistanceToWaypoint |-> prev, waypoint |-> waypoint,
     stateCoord |-> stateCoord, actionCoord |-> actionCoord]
\* no direct call of skipWaypoint is under way
SkipIdle == SkipArgs(undefined, Coord(0, 0), Coord(0, 0), Coord(0, 0))

\* the arguments of the announcement step: the sound setting, the snapshot in
\* the state, the projected instruction and the average speed of the fix
AnnounceArgs(soundEnabled, prevIndex, prevDistanceToTurn, index, distanceToTurn, estimatedAvgSpeed) ==
    [soundEnabled |-> soundEnabled, prevIndex |-> prevIndex,
     prevDistanceToTurn |-> prevDistanceToTurn, index |-> index,
     distanceToTurn |-> distanceToTurn, estimatedAvgSpeed |-> estimatedAvgSpeed]
\* the announcement step is not run on its own
AnnounceIdle == AnnounceArgs(FALSE, undefined, undefined, 0, 0, 0)

\* the constructor (lines 245-264), for both values of its fakeGPS argument
StoreInit ==
    /\ \E fakeGPS \in BOOLEAN :
        state = [showUI |-> FALSE,
                 started |-> FALSE,
                 oldTiles |-> "MapTiler",
                 coordinate |-> Coord(0, 0),
                 speed |-> 0,
                 heading |-> 0,
                 initialPath |-> null,
                 activePath |-> null,
                 customModel |-> null,
                 rerouteInProgress |-> FALSE,
                 activeProfile |-> "",
                 settings |-> [acceptedRisk |-> FALSE, fakeGPS |-> fakeGPS,
                               soundEnabled |-> ~fakeGPS],
                 instruction |-> NoInstruction,
                 pathDetails |-> NoPathDetails]
    /\ watchId = undefined
    /\ watches = {}
    /\ interval = undefined
    /\ timers = <<>>
    /\ pendingFake = 0
    /\ requests = EmptyBag
    /\ fixes = 0
    /\ lastFix = Coord(0, 0)
    /\ lastAction = [name |-> "none", via |-> "constructor", branch |-> "return"]
    /\ error = "none"
    /\ spoken = <<>>
    /\ announced = FALSE

Init ==
    /\ StoreInit
    /\ skArgs = SkipIdle
    /\ skResult = <<>>
    /\ anArgs = AnnounceIdle
    /\ anResult = <<>>

Next ==
    \/ TurnNavigationStop
    \/ TurnNavigationSettingsUpdate
    \/ TurnNavigationStart
    \/ SelectMapLayer
    \/ SetCustomModel
    \/ SetVehicleProfile
    \/ SetSelectedPath
    \/ WatchPosition
    \/ FakeRouteResolved
    \/ FakeRouteFailed
    \/ FakeTick
    \/ RouteResolved
    \/ RouteEmpty
    \/ RouteFailed

Spec == Init /\ [][Next]_vars

\* the promise of every api.route call settles and its callback runs: one of
\* the three resolutions of an outstanding request is eventually processed
Resolution == RouteFailed \/ RouteEmpty \/ RouteResolved
FairSpec == Init /\ [][Next]_vars /\ WF_vars(Resolution)

----------------------------------------------------------------------------
(* skipWaypoint on its own: the static method called with arguments drawn   *)
(* around its thresholds                                                    *)

SkipDistances == {undefined, 0, 40, 49, 50, 51, 70, 79, 80, 81, 100}
SkipCoords ==
    {Coord(lng, lat) : lng \in {0, 30, 49, 50, 60, 79, 80, 90}, lat \in {0, 40}}

SkipInit ==
    /\ StoreInit
    /\ \E prev \in SkipDistances, actionCoord \in SkipCoords,
          stateCoord \in {Coord(0, 0), Coord(500, 0)} :
            skArgs = SkipArgs(prev, Coord(0, 0), stateCoord, actionCoord)
    /\ skResult = <<>>
    /\ anArgs = AnnounceIdle
    /\ anResult = <<>>

CallSkipWaypoint ==
    /\ skResult = <<>>
    /\ skResult' = <<skipWaypoint(skArgs.prevStateDistanceToWaypoint, skArgs.waypoint,
                                  skArgs.stateCoord, skArgs.actionCoord)>>
    /\ UNCHANGED <<state, sourceVars, requests, traceVars, skArgs, anVars>>

SkipNext == CallSkipWaypoint

SpecSkip == SkipInit /\ [][SkipNext]_vars

----------------------------------------------------------------------------
(* The announcement step of the commit branch on its own (lines 410-434),   *)
(* with distances and speeds drawn around its thresholds                    *)

AnnounceSpeeds == {0, 10, 14, 15, 16, 25}
AnnounceDistances ==
    {0, 18, 30, 40, 41, 60, 61, 90, 91, 110, 111, 500, 800, 801, 1150, 1151}
AnnouncePrevDistances == {undefined, 30, 60, 61, 500, 1150, 1151, 2000}
\* the path whose instructions are announced
AnnouncePath == MakePath(<<0, 1000, 2000>>)

AnnounceInit ==
    /\ StoreInit
    /\ skArgs = SkipIdle
    /\ skResult = <<>>
    /\ \E soundEnabled \in BOOLEAN, prevIndex \in {undefined, 1}, index \in {1, 2},
          prevDistanceToTurn \in AnnouncePrevDistances,
          distanceToTurn \in AnnounceDistances,
          estimatedAvgSpeed \in AnnounceSpeeds :
            anArgs = AnnounceArgs(soundEnabled, prevIndex, prevDistanceToTurn,
                                  index, distanceToTurn, estimatedAvgSpeed)
    /\ anResult = <<>>

\* the state and the projected instruction the arguments stand for
AnnounceState(args) ==
    [state EXCEPT !.settings.soundEnabled = args.soundEnabled,
                  !.instruction.index = args.prevIndex,
                  !.instruction.distanceToTurn = args.prevDistanceToTurn]
AnnounceInstr(args) ==
    [NoInstruction EXCEPT !.index = args.index,
                          !.distanceToTurn = args.distanceToTurn]

CallAnnouncements ==
    /\ anResult = <<>>
    /\ anResult' = <<Announcements(AnnounceState(anArgs), AnnouncePath,
                                   AnnounceInstr(anArgs), anArgs.estimatedAvgSpeed)>>
    /\ UNCHANGED <<state, sourceVars, requests, traceVars, skVars, anArgs>>

AnnounceNext == CallAnnouncements

SpecAnnounce == AnnounceInit /\ [][AnnounceNext]_vars

----------------------------------------------------------------------------
(* Properties *)

\* the last step dispatched a LocationUpdate
IsFix == lastAction.name = "LocationUpdate"
\* the request whose resolution the step processes resolved to this path
ResolvedTo(path) ==
    \E args \in BagToSet(requests) :
        /\ requests' = requests (-) SetToBag({args})
        /\ path = RoutePath(args.points[1], args.points[2])

\* C1: at most one reroute request is outstanding at any time.
C1_AtMostOneRerouteInFlight == BagCardinality(requests) <= 1

\* C2: a fix processed after TurnNavigationStop, with no TurnNavigationStart
\* in between, is a no-op: the state is the state after the stop, no routing
\* request is issued and no error is raised.  Stated for the fixes that find
\* both paths set.
C2_FixAfterStopIsNoOp ==
    [][(/\ ~state.started
        /\ state.initialPath # null /\ state.activePath # null
        /\ fixes' = fixes + 1)
       => (state' = state /\ requests' = requests /\ error' = "none")]_vars

\* C3: while a routing request issued by the LocationUpdate handler is
\* unresolved, rerouteInProgress is true.
C3_InFlightImpliesRerouteInProgress ==
    requests # EmptyBag => state.rerouteInProgress

\* C4 as claimed: after a resolution with a candidate path is processed,
\* activePath is that path and rerouteInProgress is false, whatever coordinate
\* the state holds.
C4_ResolutionAlwaysInstallsPath ==
    [][lastAction'.name = "TurnNavigationRerouting"
       => (ResolvedTo(state'.activePath) /\ ~state'.rerouteInProgress)]_vars

\* C4 amended: after a resolution with a candidate path is processed,
\* rerouteInProgress is false; activePath is the candidate when the state's
\* coordinate projects onto the candidate with a non-negative instruction
\* index, and is unchanged otherwise.
C4_ResolutionInstallsPathWhenOnIt ==
    [][lastAction'.name = "TurnNavigationRerouting"
       => /\ ~state'.rerouteInProgress
          /\ \A path \in {RoutePath(args.points[1], args.points[2]) :
                            args \in BagToSet(requests)} :
                ResolvedTo(path) =>
                    IF getCurrentInstruction(path, state.coordinate).index >= 0
                       THEN state'.activePath = path
                       ELSE state'.activePath = state.activePath]_vars

\* a resolution installed its candidate path; another one found the
\* coordinate off its candidate
C4_Witness ==
    /\ lastAction.name = "TurnNavigationRerouting"
    /\ ~state.rerouteInProgress
    /\ state.activePath # null
    /\ state.activePath # state.initialPath
    /\ getCurrentInstruction(state.activePath, state.coordinate).index >= 0

\* C5: TurnNavigationReroutingFailed (no candidate path, or a failed request)
\* sets rerouteInProgress to false and leaves activePath, initialPath,
\* instruction, pathDetails, showUI, started, coordinate, heading and speed
\* unchanged.
C5_ReroutingFailedOnlyClearsFlag ==
    [][lastAction'.name = "TurnNavigationReroutingFailed"
       => /\ ~state'.rerouteInProgress
          /\ state'.activePath = state.activePath
          /\ state'.initialPath = state.initialPath
          /\ state'.instruction = state.instruction
          /\ state'.pathDetails = state.pathDetails
          /\ state'.showUI = state.showUI
          /\ state'.started = state.started
          /\ state'.coordinate = state.coordinate
          /\ state'.heading = state.heading
          /\ state'.speed = state.speed]_vars

\* a failed request was processed while guidance was on a rerouted leg
C5_Witness ==
    /\ lastAction.name = "TurnNavigationReroutingFailed"
    /\ lastAction.via = "route.catch"
    /\ state.showUI
    /\ state.instruction # NoInstruction
    /\ ~state.rerouteInProgress

\* C6: showUI goes from true to false only when TurnNavigationStop is
\* processed.
C6_ShowUIRevertsOnlyOnStop ==
    [][(state.showUI /\ ~state'.showUI) => lastAction'.name = "TurnNavigationStop"]_vars

\* guidance is still shown after a resolution that found the coordinate off
\* the candidate path
C6_Witness ==
    /\ state.showUI
    /\ lastAction.name = "TurnNavigationRerouting"
    /\ state.activePath = state.initialPath
    /\ fixes >= 2

\* C7: showUI changes from false to true only when a LocationUpdate is
\* processed whose coordinate projects onto the state's activePath with a
\* non-negative instruction index, and the snapshot committed in that step is
\* the projection onto activePath.
C7_ShowUICommitsProjectionOntoActivePath ==
    [][(~state.showUI /\ state'.showUI)
       => /\ lastAction'.name = "LocationUpdate"
          /\ state'.activePath # null
          /\ LET instr == getCurrentInstruction(state'.activePath, state'.coordinate)
             IN /\ instr.index >= 0
                /\ state'.instruction = InstructionState(state'.activePath, instr)]_vars

\* C8: while started is true, activePath and initialPath are both non-null.
C8_StartedImpliesPaths ==
    state.started => (state.activePath # null /\ state.initialPath # null)

\* C9: skipWaypoint returns true iff the previous distance is below 50, or
\* the straight-line distance is below 50, or both are below 80; an undefined
\* previous distance is below no threshold.
C9_SkipWaypointThresholds ==
    skResult # <<>> =>
        LET prev == skArgs.prevStateDistanceToWaypoint
            straight == calcDist(skArgs.actionCoord, skArgs.waypoint)
            prevBelow50 == prev # undefined /\ prev < 50
            prevBelow80 == prev # undefined /\ prev < 80
        IN skResult[1] = (prevBelow50 \/ straight < 50 \/ (prevBelow80 /\ straight < 80))

\* skipWaypoint returned true through the joint threshold alone
C9_Witness ==
    /\ skResult = <<TRUE>>
    /\ skArgs.prevStateDistanceToWaypoint = 70
    /\ calcDist(skArgs.actionCoord, skArgs.waypoint) >= 50

\* C10 as claimed: the near announcement is not spoken again on a later fix
\* for the same instruction index.
C10_NearAnnouncementOncePerInstruction ==
    [][(NearSpoken(spoken') /\ SameInstruction(state, state')) => ~announced]_vars

\* C10 amended: with sound enabled, a committed fix speaks the near
\* announcement iff its distanceToTurn is at most lastAnnounceDistance and
\* the snapshot it replaces has another instruction index or a distanceToTurn
\* above lastAnnounceDistance.
C10_NearAnnouncementEdgeTriggered ==
    [][(/\ lastAction'.name = "LocationUpdate"
        /\ lastAction'.branch = "commit"
        /\ state.settings.soundEnabled)
       => LET lad == 10 + 2 * ((2 * state'.pathDetails.estimatedAvgSpeed + 5) \div 10) * 5
          IN NearSpoken(spoken') <=>
                /\ state'.instruction.distanceToTurn <= lad
                /\ \/ state'.instruction.index # state.instruction.index
                   \/ state.instruction.distanceToTurn > lad]_vars

\* the third fix is committed inside the announcement window of the turn and
\* speaks the near announcement
C10_Witness ==
    /\ IsFix
    /\ lastAction.branch = "commit"
    /\ NearSpoken(spoken)
    /\ fixes = 3
    /\ state.instruction.index = 1

\* C11: the far announcement is never spoken on a fix whose estimated
\* average speed is 15 or less, whatever the distance to the turn, the
\* snapshot in the state and the instruction index are.
C11_NoFarAnnouncementAtLowSpeed ==
    (anResult # <<>> /\ anArgs.estimatedAvgSpeed <= 15) => ~FarSpoken(anResult[1])

\* the announcement step ran with sound on at speed 15 for a new instruction
\* 500 m before its turn, inside the far window
C11_Witness ==
    /\ anResult # <<>>
    /\ anArgs.soundEnabled
    /\ anArgs.estimatedAvgSpeed = 15
    /\ anArgs.distanceToTurn = 500
    /\ anArgs.index # anArgs.prevIndex
    /\ ~FarSpoken(anResult[1])

\* C12: TurnNavigationStop raises no error in any state, idle ones included;
\* it sets started and showUI to false and speed and heading to 0 and leaves
\* every other field as it is, and processing it a second time right after
\* gives the same state again.
C12_StopIsIdempotent ==
    /\ reduceStop(state).error = "none"
    /\ reduceStop(state).state =
          [state EXCEPT !.showUI = FALSE, !.started = FALSE, !.speed = 0, !.heading = 0]
    /\ reduceStop(reduceStop(state).state) = reduceStop(state)
    /\ lastAction.name = "TurnNavigationStop"
          => /\ error = "none"
             /\ reduceStop(state).state = state

\* TurnNavigationStop was the last action processed, after a fix away from
\* the origin had been committed: the store is idle with speed 0
C12_Witness ==
    /\ lastAction.name = "TurnNavigationStop"
    /\ state.instruction.index # undefined
    /\ state.coordinate # Coord(0, 0)
    /\ ~state.started
    /\ state.speed = 0

\* C13: no location source delivers a LocationUpdate after the stop that
\* follows its start: whenever a replay timer, a device watch or initFake
\* dispatches a fix, navigation is started.
C13_NoFixAfterStop ==
    [][fixes' = fixes + 1 => state.started]_vars

\* C14: a TurnNavigationRerouting processed after navigation has been
\* stopped leaves activePath, instruction and pathDetails unchanged.
C14_ResolutionAfterStopIsNoOp ==
    [][(lastAction'.name = "TurnNavigationRerouting" /\ ~state.started)
       => /\ state'.activePath = state.activePath
          /\ state'.instruction = state.instruction
          /\ state'.pathDetails = state.pathDetails]_vars

\* C15: the k-th fix of a fake-GPS replay of N points is point (k-1) mod N
\* of the sequence computed at initialisation, which never changes: the
\* (N+1)-th fix is the 1st again.  The fix is read from the coordinate, speed
\* and heading the store holds after processing it.
C15_FakeReplayIsCyclic ==
    [][\A id \in DOMAIN timers' :
         /\ id \in DOMAIN timers => timers'[id].latlon = timers[id].latlon
         /\ (/\ id \notin DOMAIN timers \/ timers'[id].delivered # timers[id].delivered
             /\ lastAction'.branch \in {"commit", "reroute"})
            => LET k == timers'[id].delivered
                   N == Len(timers'[id].latlon)
                   pos == timers'[id].latlon[((k - 1) % N) + 1]
               IN /\ lastAction'.name = "LocationUpdate"
                  /\ state'.coordinate = Coord(pos.longitude, pos.latitude)
                  /\ state'.speed = pos.speed
                  /\ state'.heading = pos.heading]_vars

\* the replay timer has delivered its (N+1)-th fix, which was committed
C15_Witness ==
    \E id \in DOMAIN timers :
        /\ timers[id].delivered = Len(timers[id].latlon) + 1
        /\ lastAction.via = "timer"
        /\ lastAction.branch = "commit"
        /\ state.coordinate = Coord(timers[id].latlon[1].longitude,
                                    timers[id].latlon[1].latitude)

\* C16: a LocationUpdate processed while activeProfile is empty and both
\* paths are set leaves every state field unchanged, issues no routing
\* request, speaks nothing and throws nothing.
C16_FixWithoutProfileIsNoOp ==
    [][(/\ fixes' = fixes + 1
        /\ state.activeProfile = ""
        /\ state.initialPath # null /\ state.activePath # null)
       => /\ state' = state
          /\ requests' = requests
          /\ spoken' = <<>>
          /\ error' = "none"]_vars

\* a fix was processed with both paths set and no profile
C16_Witness ==
    /\ IsFix
    /\ fixes > 0
    /\ lastAction.branch = "return"
    /\ state.activeProfile = ""
    /\ state.initialPath # null /\ state.activePath # null
    /\ state.started

C18_FixWhileReroutingOnlyMoves ==
    [][(fixes' = fixes + 1 /\ state.rerouteInProgress)
       => /\ state' = [state EXCEPT !.coordinate = lastFix',
                                    !.heading = state'.heading,
                                    !.speed = state'.speed]
          /\ requests' = requests]_vars

\* C19: when a fix satisfies the waypoint-skip condition while activePath has
\* exactly two waypoints and initialPath has more than two, activePath equals
\* initialPath in the state that results from processing the fix.
C19_SkipSwitchesActivePathBack ==
    [][(/\ fixes' = fixes + 1
        /\ state.initialPath # null /\ state.activePath # null
        /\ state.activeProfile # ""
        /\ SwitchBack(state, lastFix'))
       => state'.activePath = state.initialPath]_vars

\* C20: when the waypoint-skip condition holds for a fix but the next
\* waypoint is the last one of the path in use, the skip is cancelled:
\* nextWaypointIndex is not advanced and a request is issued only if the
\* deviation from the route asks for one; and every request a fix issues goes
\* to a waypoint of the path in use.
C20_SkipCancelledAtLastWaypoint ==
    [][(/\ fixes' = fixes + 1
        /\ state.initialPath # null /\ state.activePath # null
        /\ state.activeProfile # "")
       => LET c == lastFix'
              path == IF SwitchBack(state, c) THEN state.initialPath ELSE state.activePath
              instr == getCurrentInstruction(path, c)
              last == Len(path.snapped_waypoints) - 1
              atLast == SkipOf(state, path, instr, c) /\ instr.nextWaypointIndex = last
              recorded == state.instruction.distanceToRoute
              deviates == IF recorded = undefined THEN instr.distanceToRoute > 50
                          ELSE \/ instr.distanceToRoute - recorded > 50
                               \/ recorded - instr.distanceToRoute > 50
              issued == BagToSet(requests' (-) requests)
          IN /\ \A r \in issued :
                   \E i \in 0..last : r.points[2] = getWaypoint(path, i)
             /\ atLast =>
                  /\ issued # {} => (state.showUI /\ deviates)
                  /\ \A r \in issued : r.points[2] = getWaypoint(path, last)
                  /\ lastAction'.branch = "commit"
                        => state'.instruction.nextWaypointIndex = last]_vars

\* a fix 40 m before the last of three waypoints was committed with the last
\* waypoint still the next one, and no request is outstanding
C20_Witness ==
    /\ IsFix
    /\ lastAction.branch = "commit"
    /\ lastFix = Coord(1960, 0)
    /\ state.activePath # null
    /\ Len(state.activePath.snapped_waypoints) = 3
    /\ state.instruction.nextWaypointIndex = 2
    /\ requests = EmptyBag

\* C21: the error 'Instruction should be valid if distanceToRoute is small'
\* is never raised: a fix whose projection has a negative instruction index
\* takes the reroute branch, so the commit step sees only non-negative ones.
C21_InvalidInstructionNeverCommitted ==
    error # "Instruction should be valid if distanceToRoute is small"

\* C22: whenever rerouteInProgress is true, at least one routing request has
\* been issued whose resolution has not been processed yet.
C22_RerouteInProgressHasRequest ==
    state.rerouteInProgress => BagCardinality(requests) >= 1

\* a path was selected while a request issued by a waypoint skip was
\* outstanding and the flag was set
C22_Witness ==
    /\ lastAction.name = "SetSelectedPath"
    /\ error = "none"
    /\ state.rerouteInProgress
    /\ BagCardinality(requests) >= 1

\* C23: when every issued request is eventually resolved and its resolution
\* processed, a state with rerouteInProgress set is eventually followed by one
\* where it is cleared; and a fix received with the flag cleared that
\* satisfies the reroute trigger issues a new request.
C23_RerouteEventuallyEndsAndRetries ==
    /\ state.rerouteInProgress ~> ~state.rerouteInProgress
    /\ [][(/\ fixes' = fixes + 1
            /\ state.initialPath # null /\ state.activePath # null
            /\ state.activeProfile # ""
            /\ ~state.rerouteInProgress
            /\ \/ SkipDecision(state, lastFix').skipWaypoint
               \/ /\ state.showUI
                  /\ distanceToRouteChange(
                         state, SkipDecision(state, lastFix').instr.distanceToRoute))
           => /\ BagCardinality(requests') = BagCardinality(requests) + 1
              /\ state'.rerouteInProgress]_vars

\* a rerouted path had been installed, the flag cleared, and a later fix off
\* that path issued the one request now outstanding
C23_Witness ==
    /\ IsFix
    /\ lastAction.branch = "reroute"
    /\ state.rerouteInProgress
    /\ BagCardinality(requests) = 1
    /\ state.activePath # null
    /\ state.activePath # state.initialPath

\* C24: while settings.soundEnabled is false nothing is given to the speech
\* synthesizer: no near or far turn announcement of a fix and no reroute
\* announcement of a resolving request.
C24_SilentWhenSoundDisabled ==
    ~state.settings.soundEnabled => spoken = <<>>

\* with sound off, a fix 18 m before the turn was committed inside the window
\* of the near announcement and nothing was spoken for that instruction
C24_Witness ==
    /\ IsFix
    /\ lastAction.branch = "commit"
    /\ ~state.settings.soundEnabled
    /\ lastFix = Coord(582, 0)
    /\ state.instruction.distanceToTurn
          <= lastAnnounceDistance(state.pathDetails.estimatedAvgSpeed)
    /\ ~announced
    /\ spoken = <<>>

\* the announcement step ran with sound on, at average speed 25, for the
\* instruction of the previous fix
AnnouncedAtSpeed25 ==
    /\ anResult # <<>>
    /\ anArgs.soundEnabled
    /\ anArgs.estimatedAvgSpeed = 25
    /\ anArgs.index = anArgs.prevIndex

\* C25 as stated: the near-announcement threshold for an average speed of 25
\* is 20, so of the distances to the turn 30 and then 18 within one
\* instruction the first is not announced and the second is.
C25_ThresholdTwentyAtSpeed25 ==
    AnnouncedAtSpeed25 =>
        /\ lastAnnounceDistance(anArgs.estimatedAvgSpeed) = 20
        /\ anArgs.distanceToTurn = 30 => ~NearSpoken(anResult[1])
        /\ (anArgs.distanceToTurn = 18 /\ anArgs.prevDistanceToTurn = 30)
              => NearSpoken(anResult[1])

\* C25 (amended): the near-announcement threshold for an average speed of 25
\* is 60, so of the distances to the turn 30 and then 18 within one
\* instruction the first is announced exactly when the distance recorded
\* before it was above 60, and the second is not announced.
C25_ThresholdSixtyAtSpeed25 ==
    AnnouncedAtSpeed25 =>
        /\ lastAnnounceDistance(anArgs.estimatedAvgSpeed) = 60
        /\ anArgs.distanceToTurn = 30
              => (NearSpoken(anResult[1]) <=> JsGt(anArgs.prevDistanceToTurn, 60))
        /\ (anArgs.distanceToTurn = 18 /\ anArgs.prevDistanceToTurn = 30)
              => ~NearSpoken(anResult[1])

\* the step ran for distance 18 after distance 30 and spoke no near
\* announcement
C25_Witness ==
    /\ AnnouncedAtSpeed25
    /\ anArgs.distanceToTurn = 18
    /\ anArgs.prevDistanceToTurn = 30
    /\ ~NearSpoken(anResult[1])

\* C26: a LocationUpdate processed while showUI is false issues no routing
\* request.
C26_NoRequestBeforeGuidance ==
    [][(fixes' = fixes + 1 /\ ~state.showUI) => requests' = requests]_vars

\* C27: SetSelectedPath processed while showUI is true raises an error and
\* leaves the state unchanged; no other action changes initialPath; so no
\* step taken while showUI is true changes initialPath.
C27_InitialPathFixedDuringGuidance ==
    [][/\ (state.showUI /\ lastAction'.name = "SetSelectedPath")
            => /\ error' = "Changing path while turn navigation should not happen"
               /\ state' = state
       /\ state'.initialPath # state.initialPath
            => lastAction'.name = "SetSelectedPath"
       /\ state.showUI => state'.initialPath = state.initialPath]_vars

\* a path was selected during guidance on a rerouted path and refused
C27_Witness ==
    /\ lastAction.name = "SetSelectedPath"
    /\ error = "Changing path while turn navigation should not happen"
    /\ state.showUI
    /\ state.activePath # state.initialPath

\* C28: in every reachable state showUI implies started: the guidance display
\* is never active while navigation is idle.
C28_ShowUIImpliesStarted ==
    state.showUI => state.started

====
